---- MODULE Spec2Model ----
(***************************************************************************)
(* Cross-partition ordered query merge of azure-cosmos:                    *)
(*   azure/cosmos/_execution_context/aio/document_producer.py              *)
(* and the retry loop of azure-storage-queue:                              *)
(*   azure/storage/queue/_shared/policies.py                               *)
(*                                                                         *)
(* Python values are modelled as records [tag, v]: tag is the Python type  *)
(* the code tests for (None, bool, numbers.Number, str) and v an integer:  *)
(* 0/1 for False/True, the number itself, and for a str its position in    *)
(* the lexicographically ordered sample list StrSamples.  An orderby item  *)
(* is the dict {"item": value}; the dict without an "item" key is the      *)
(* record with tag "Undefined".                                            *)
(*                                                                         *)
(* A Python call either returns a value, modelled as [val |-> x], or       *)
(* raises, modelled as [exc |-> <exception class>, msg |-> <message>].     *)
(***************************************************************************)
EXTENDS Integers, Sequences, FiniteSets, TLC

\* ------------------------------------------------------------ bounds
\* Longest orderByItems list / sort order drawn for the comparators.
MaxLen == 2
\* Most items one partition key range returns.
MaxItems == 2
\* Number of partition key ranges (one _DocumentProducer each) of a merge.
NumParts == 2
\* Largest retry_total / retry_connect / retry_read / retry_status configured.
MaxRetries == 2

VARIABLES
    sort_order,   \* _OrderByDocumentProducerComparator._sort_order
    docs,         \* comparator inputs: the peeked items and their producers' ranges
    cmp,          \* what the comparators returned or raised on docs
    streams,      \* per partition key range, the items its query returns, in order
    producers,    \* per _DocumentProducer: _cur_item and its _ex_context's position
    last,         \* the last peek() / __anext__() call on a producer and its outcome
    advanced,     \* the items __anext__() has returned, in order
    peek_run,     \* the peek() calls that returned an item since the last other call
    mstate,       \* MergeCoordinator: "Idle", "Active", "Draining", "Done" or "Failed"
    pending,      \* producers the first pull has not peeked yet
    live,         \* the live producer set
    output,       \* the items released to the consumer, in order
    pulled,       \* what the last step of a pull returned or raised
    fetching,     \* producers whose task has a fetch outstanding
    selected,     \* the item a pull has taken from its producer and not yet returned
    cancelled,    \* the consumer has cancelled the merge sequence
    task_log,     \* the producers' fetches that completed or were stopped, in order
    collector,    \* BoundedTopResultCollector: capacity, items retained, items offered
    retry         \* one StorageRetryPolicy.send call: its retry settings and progress

cmpVars == <<docs, cmp>>
prodVars == <<streams, producers, last, advanced, peek_run>>
mergeVars == <<mstate, pending, live, output, pulled>>
taskVars == <<fetching, selected, cancelled, task_log>>
topVars == <<collector>>
vars == <<sort_order, cmpVars, prodVars, mergeVars, taskVars, topVars, retry>>

\* ------------------------------------------------------------ values
StrSamples == <<"", "05C1DFFFFFFFFC", "a", "b">>

Undefined == [tag |-> "Undefined", v |-> 0]
PyNone == [tag |-> "Null", v |-> 0]
PyBool(b) == [tag |-> "Boolean", v |-> IF b THEN 1 ELSE 0]
PyNumber(n) == [tag |-> "Number", v |-> n]
PyStr(s) == [tag |-> "String", v |-> CHOOSE i \in DOMAIN StrSamples : StrSamples[i] = s]

Return(x) == [val |-> x]
Raise(e, m) == [exc |-> e, msg |-> m]
Returned(r) == "val" \in DOMAIN r
Raised(r) == "exc" \in DOMAIN r
RaisedExc(r, e) == Raised(r) /\ r.exc = e

Sign(n) == IF n > 0 THEN 1 ELSE IF n < 0 THEN -1 ELSE 0

\* Python 3 defines < and > between two values only for bool/int/float among
\* themselves (bool is a subclass of int) and for str with str.
PyOrderable(a, b) ==
    \/ a.tag \in {"Boolean", "Number"} /\ b.tag \in {"Boolean", "Number"}
    \/ a.tag = "String" /\ b.tag = "String"

\* ------------------------------------------------------------ comparators
\* _compare_helper returning only (a > b)
_compare_helper_gt_only(a, b) ==
    IF a.tag = "Null" /\ b.tag = "Null" THEN Return(0)
    ELSE IF ~PyOrderable(a, b)
         THEN Raise("TypeError", <<"'>' not supported between instances", a.tag, b.tag>>)
         ELSE Return(IF a.v > b.v THEN 1 ELSE 0)

\* def _compare_helper(a, b)
_compare_helper(a, b) ==
    IF a.tag = "Null" /\ b.tag = "Null" THEN Return(0)
    ELSE IF ~PyOrderable(a, b)
         THEN Raise("TypeError", <<"'>' not supported between instances", a.tag, b.tag>>)
         ELSE Return((IF a.v > b.v THEN 1 ELSE 0) - (IF a.v < b.v THEN 1 ELSE 0))

\* _PartitionKeyRangeDocumentProducerComparator.compare, on the two producers'
\* target ranges' "minInclusive"
PartitionKeyRangeCompare(min1, min2) == _compare_helper(min1, min2)

\* _OrderByHelper.getTypeOrd
getTypeOrd(orderby_item) ==
    CASE orderby_item.tag = "Undefined" -> 0
      [] orderby_item.tag = "Null" -> 1
      [] orderby_item.tag = "Boolean" -> 2
      [] orderby_item.tag = "Number" -> 4
      [] orderby_item.tag = "String" -> 5

\* _OrderByHelper.getTypeStr
getTypeStr(orderby_item) ==
    CASE orderby_item.tag = "Undefined" -> "NoValue"
      [] orderby_item.tag = "Null" -> "Null"
      [] orderby_item.tag = "Boolean" -> "Boolean"
      [] orderby_item.tag = "Number" -> "Number"
      [] orderby_item.tag = "String" -> "String"

\* _OrderByHelper.compare with the operands of the rank difference swapped
OrderByHelperCompareSwapped(orderby_item1, orderby_item2) ==
    LET type1_ord == getTypeOrd(orderby_item1)
        type2_ord == getTypeOrd(orderby_item2)
        type_ord_diff == type2_ord - type1_ord
    IN  IF type_ord_diff # 0 THEN Return(type_ord_diff)
        ELSE IF type1_ord = 0 THEN Return(0)
        ELSE _compare_helper(orderby_item1, orderby_item2)

\* _OrderByHelper.compare
OrderByHelperCompare(orderby_item1, orderby_item2) ==
    LET type1_ord == getTypeOrd(orderby_item1)
        type2_ord == getTypeOrd(orderby_item2)
        type_ord_diff == type1_ord - type2_ord
    IN  IF type_ord_diff # 0 THEN Return(type_ord_diff)
        ELSE IF type1_ord = 0 THEN Return(0)
        ELSE _compare_helper(orderby_item1, orderby_item2)

Min(a, b) == IF a < b THEN a ELSE b

\* the type loop of _validate_orderby_items never raising
ValidateTypesNever(res1, res2, i) == Return(PyNone)

\* the "for elt1, elt2 in zip(res1, res2)" loop of _validate_orderby_items,
\* from position i on: the first pair whose type strings differ raises
RECURSIVE ValidateTypesFrom(_, _, _)
ValidateTypesFrom(res1, res2, i) ==
    IF i > Min(Len(res1), Len(res2)) THEN Return(PyNone)
    ELSE LET type1 == getTypeStr(res1[i])
             type2 == getTypeStr(res2[i])
         IN  IF type1 # type2
             THEN Raise("ValueError", <<"Expected {}, but got {}.", type1, type2>>)
             ELSE ValidateTypesFrom(res1, res2, i + 1)

\* _validate_orderby_items without its two size checks
_validate_types_only(res1, res2, so) == ValidateTypesFrom(res1, res2, 1)

\* _OrderByDocumentProducerComparator._validate_orderby_items
_validate_orderby_items(res1, res2, so) ==
    IF Len(res1) # Len(res2)
    THEN Raise("ValueError", <<"orderByItems cannot have different size">>)
    ELSE IF Len(res1) # Len(so)
    THEN Raise("ValueError", <<"orderByItems cannot have a different size than sort orders.">>)
    ELSE ValidateTypesFrom(res1, res2, 1)

\* the loop body returning res whatever the direction
OrderByStepNoFlip(elt1, elt2, dir) ==
    LET res == OrderByHelperCompare(elt1, elt2)
    IN  IF Raised(res) THEN res
        ELSE IF res.val # 0 THEN Return(res.val)
        ELSE [next |-> TRUE]

\* One pass of the comparison loop of _OrderByDocumentProducerComparator.compare
\* at position i: what "return" yields there, or [next |-> TRUE] when the loop
\* goes on to position i + 1.
OrderByStep(elt1, elt2, dir) ==
    LET res == OrderByHelperCompare(elt1, elt2)
    IN  IF Raised(res) THEN res
        ELSE IF res.val # 0 /\ dir = "Ascending" THEN Return(res.val)
        ELSE IF res.val # 0 /\ dir = "Descending" THEN Return(-res.val)
        ELSE [next |-> TRUE]

\* the "for i, (elt1, elt2) in enumerate(zip(res1, res2))" loop from position
\* i on; [next |-> TRUE] when the loop ends without returning
RECURSIVE OrderByLoopFrom(_, _, _, _)
OrderByLoopFrom(res1, res2, so, i) ==
    IF i > Min(Len(res1), Len(res2)) THEN [next |-> TRUE]
    ELSE LET r == OrderByStep(res1[i], res2[i], so[i])
         IN  IF "next" \in DOMAIN r THEN OrderByLoopFrom(res1, res2, so, i + 1) ELSE r

\* compare returning 0 when every position ties, the ranges not consulted
OrderByCompareNoTieBreak(peek1, peek2, min1, min2, so) ==
    LET res1 == peek1.orderByItems
        res2 == peek2.orderByItems
        ok == _validate_orderby_items(res1, res2, so)
        r == OrderByLoopFrom(res1, res2, so, 1)
    IN  IF Raised(ok) THEN ok
        ELSE IF "next" \in DOMAIN r THEN Return(0)
        ELSE r

\* _OrderByDocumentProducerComparator.compare once both peeks have returned:
\* peek1, peek2 are the peeked items, min1, min2 the producers' minInclusive
OrderByCompare(peek1, peek2, min1, min2, so) ==
    LET res1 == peek1.orderByItems
        res2 == peek2.orderByItems
        ok == _validate_orderby_items(res1, res2, so)
        r == OrderByLoopFrom(res1, res2, so, 1)
    IN  IF Raised(ok) THEN ok
        ELSE IF "next" \in DOMAIN r THEN PartitionKeyRangeCompare(min1, min2)
        ELSE r

\* _NonStreamingOrderByComparator.compare never negating its result
NonStreamingCompareNoFlip(item1, item2, so) ==
    IF Len(item1.orderByItems) = 0 \/ Len(item2.orderByItems) = 0
    THEN Raise("IndexError", <<"list index out of range">>)
    ELSE OrderByHelperCompare(item1.orderByItems[1], item2.orderByItems[1])

\* _NonStreamingOrderByComparator.compare on two item results
NonStreamingCompare(item1, item2, so) ==
    IF Len(item1.orderByItems) = 0 \/ Len(item2.orderByItems) = 0
    THEN Raise("IndexError", <<"list index out of range">>)
    ELSE LET rank1 == item1.orderByItems[1]
             rank2 == item2.orderByItems[1]
             res == OrderByHelperCompare(rank1, rank2)
         IN  IF Raised(res) THEN res
             ELSE IF res.val # 0 /\ Len(so) = 0
             THEN Raise("IndexError", <<"list index out of range">>)
             ELSE IF res.val # 0 /\ so[1] = "Descending" THEN Return(-res.val)
             ELSE res

\* ------------------------------------------------------------ _DocumentProducer
\* A producer is [cur_item, buffered, popped]: self._cur_item (None or the
\* peeked item), and of self._ex_context the number of items of the current
\* page it still buffers and the number of items it has handed out.
NewProducer == [cur_item |-> PyNone, buffered |-> 0, popped |-> 0]

\* await self._ex_context.__anext__(): every outcome the call can have, as
\* [result, pr]. A buffered item is handed out without a fetch; otherwise the
\* fetch fails, or finds the range exhausted, or brings a page of n >= 1 of
\* the remaining items, of which the first is handed out.
ExContextAnext(pr, stream) ==
    IF pr.buffered > 0
    THEN {[result |-> Return(stream[pr.popped + 1]),
           pr |-> [pr EXCEPT !.buffered = @ - 1, !.popped = @ + 1]]}
    ELSE {[result |-> Raise("CosmosHttpResponseError", <<"fetch failed">>), pr |-> pr]}
         \cup
         (IF pr.popped = Len(stream)
          THEN {[result |-> Raise("StopAsyncIteration", <<>>), pr |-> pr]}
          ELSE {[result |-> Return(stream[pr.popped + 1]),
                 pr |-> [pr EXCEPT !.buffered = n - 1, !.popped = @ + 1]] :
                    n \in 1..(Len(stream) - pr.popped)})

\* __anext__ handing out _cur_item without resetting it
ProducerAnextKeeps(pr, stream) ==
    IF pr.cur_item # PyNone
    THEN {[result |-> Return(pr.cur_item), pr |-> pr, calls |-> 0]}
    ELSE {[result |-> o.result, pr |-> o.pr, calls |-> 1] : o \in ExContextAnext(pr, stream)}

\* _DocumentProducer.__anext__: every outcome as [result, pr, calls], calls
\* being the number of self._ex_context.__anext__() calls made
ProducerAnext(pr, stream) ==
    IF pr.cur_item # PyNone
    THEN {[result |-> Return(pr.cur_item), pr |-> [pr EXCEPT !.cur_item = PyNone],
           calls |-> 0]}
    ELSE {[result |-> o.result, pr |-> o.pr, calls |-> 1] : o \in ExContextAnext(pr, stream)}

\* peek reporting the end of the range when the fetch fails
ProducerPeekEndsOnError(pr, stream) ==
    IF pr.cur_item = PyNone
    THEN {[result |-> IF Raised(o.result) THEN Raise("StopAsyncIteration", <<>>)
                      ELSE o.result,
           pr |-> IF Returned(o.result) THEN [o.pr EXCEPT !.cur_item = o.result.val]
                  ELSE o.pr,
           calls |-> 1] : o \in ExContextAnext(pr, stream)}
    ELSE {[result |-> Return(pr.cur_item), pr |-> pr, calls |-> 0]}

\* peek raising an error of its own in place of the fetch's
ProducerPeekWraps(pr, stream) ==
    IF pr.cur_item = PyNone
    THEN {[result |-> IF Raised(o.result) /\ o.result.exc # "StopAsyncIteration"
                      THEN Raise("RuntimeError", <<"peek failed">>) ELSE o.result,
           pr |-> IF Returned(o.result) THEN [o.pr EXCEPT !.cur_item = o.result.val]
                  ELSE o.pr,
           calls |-> 1] : o \in ExContextAnext(pr, stream)}
    ELSE {[result |-> Return(pr.cur_item), pr |-> pr, calls |-> 0]}

\* peek without the "if self._cur_item is None" test
ProducerPeekAlwaysFetches(pr, stream) ==
    {[result |-> o.result,
      pr |-> IF Returned(o.result) THEN [o.pr EXCEPT !.cur_item = o.result.val] ELSE o.pr,
      calls |-> 1] : o \in ExContextAnext(pr, stream)}

\* _DocumentProducer.peek: every outcome as [result, pr, calls]
ProducerPeek(pr, stream) ==
    IF pr.cur_item = PyNone
    THEN {[result |-> o.result,
           pr |-> IF Returned(o.result) THEN [o.pr EXCEPT !.cur_item = o.result.val]
                  ELSE o.pr,
           calls |-> 1] : o \in ExContextAnext(pr, stream)}
    ELSE {[result |-> Return(pr.cur_item), pr |-> pr, calls |-> 0]}

\* The item at position i of partition key range p whose orderByItems are keys.
Item(p, i, keys) == [orderByItems |-> keys, rid |-> <<p, i>>]
StreamOf(p, keyseq) == [i \in 1..Len(keyseq) |-> Item(p, i, keyseq[i])]

\* ------------------------------------------------------------ comparator inputs
\* Orderby items: one value of each singleton tag, True, two numbers, a string.
KeySamples ==
    {Undefined, PyNone, PyBool(TRUE), PyNumber(0), PyNumber(1), PyStr("a")}

\* "minInclusive" of a partition key range: a string, or None.
MinSamples == {PyNone, PyStr(""), PyStr("05C1DFFFFFFFFC")}

SortDirections == {"Ascending", "Descending"}

KeyLists == UNION {[1..n -> KeySamples] : n \in 1..MaxLen}
SortOrders == UNION {[1..n -> SortDirections] : n \in 1..MaxLen}

Docs == [orderByItems : KeyLists, minInclusive : MinSamples]

NotCompared == [op |-> "none"]
NotCalled == [op |-> "none"]
NoRun == [items |-> {}, peeks |-> 0, calls |-> 0]

\* no comparator under test
NoComparison == docs = <<>> /\ cmp = NotCompared
\* no producer constructed
NoProducers ==
    /\ streams = <<>> /\ producers = <<>>
    /\ last = NotCalled /\ advanced = <<>> /\ peek_run = NoRun
\* no merge running
NoMerge ==
    /\ mstate = "Idle" /\ pending = {} /\ live = {}
    /\ output = <<>> /\ pulled = NotCalled

\* no producer task running, no pull under way, no cancellation
NoTasks == fetching = {} /\ selected = PyNone /\ cancelled = FALSE /\ task_log = <<>>
\* no collector constructed
NoCollector == collector = [capacity |-> 0, items |-> <<>>, offered |-> <<>>]
\* no request being sent
NoRetry == retry = [pc |-> "none"]

\* ------------------------------------------------------------ SpecCmp
\* The comparators as pure functions of two producers' peeked items.
InitCmp ==
    /\ sort_order \in SortOrders
    /\ docs \in [1..2 -> Docs]
    /\ cmp = NotCompared
    /\ NoProducers
    /\ NoMerge
    /\ NoTasks
    /\ NoRetry
    /\ NoCollector

\* comparator.compare(doc_producer1, doc_producer2) and the converse call
CompareProducers ==
    /\ cmp = NotCompared
    /\ cmp' = [op |-> "orderby",
               fwd |-> OrderByCompare(docs[1], docs[2], docs[1].minInclusive,
                                      docs[2].minInclusive, sort_order),
               rev |-> OrderByCompare(docs[2], docs[1], docs[2].minInclusive,
                                      docs[1].minInclusive, sort_order)]
    /\ UNCHANGED <<taskVars, topVars, retry, sort_order, docs, prodVars, mergeVars>>

\* _PartitionKeyRangeDocumentProducerComparator().compare on the two producers
CompareRanges ==
    /\ cmp = NotCompared
    /\ cmp' = [op |-> "range",
               fwd |-> PartitionKeyRangeCompare(docs[1].minInclusive, docs[2].minInclusive),
               rev |-> PartitionKeyRangeCompare(docs[2].minInclusive, docs[1].minInclusive)]
    /\ UNCHANGED <<taskVars, topVars, retry, sort_order, docs, prodVars, mergeVars>>

\* _NonStreamingOrderByComparator(sort_order).compare on the two item results
CompareItems ==
    /\ cmp = NotCompared
    /\ cmp' = [op |-> "nonstreaming",
               fwd |-> NonStreamingCompare(docs[1], docs[2], sort_order),
               rev |-> NonStreamingCompare(docs[2], docs[1], sort_order)]
    /\ UNCHANGED <<taskVars, topVars, retry, sort_order, docs, prodVars, mergeVars>>

NextCmp == CompareProducers \/ CompareRanges \/ CompareItems

SpecCmp == InitCmp /\ [][NextCmp]_vars

\* ------------------------------------------------------------ SpecOrder
\* The orderby comparator on three producers whose peeked key lists have the
\* sort order's length and whose ranges have a string minInclusive.
TripleDocs(n) ==
    [orderByItems : [1..n -> KeySamples], minInclusive : MinSamples \ {PyNone}]

InitOrder ==
    /\ sort_order \in SortOrders
    /\ docs \in [1..3 -> TripleDocs(Len(sort_order))]
    /\ cmp = NotCompared
    /\ NoProducers
    /\ NoMerge
    /\ NoTasks
    /\ NoRetry
    /\ NoCollector

CompareOf(i, j) ==
    OrderByCompare(docs[i], docs[j], docs[i].minInclusive, docs[j].minInclusive,
                   sort_order)

\* comparator.compare on the pairs (a, b), (b, a), (b, c) and (a, c)
CompareThree ==
    /\ cmp = NotCompared
    /\ cmp' = [op |-> "order", ab |-> CompareOf(1, 2), ba |-> CompareOf(2, 1),
               bc |-> CompareOf(2, 3), ac |-> CompareOf(1, 3)]
    /\ UNCHANGED <<taskVars, topVars, retry, sort_order, docs, prodVars, mergeVars>>

NextOrder == CompareThree

SpecOrder == InitOrder /\ [][NextOrder]_vars

\* ------------------------------------------------------------ SpecProd
\* One _DocumentProducer whose owner calls peek() and __anext__() in any order.
ProdKeyLists == {<<PyNumber(0)>>, <<PyNumber(1)>>, <<PyStr("a")>>}
KeySeqs(S) == UNION {[1..n -> S] : n \in 0..MaxItems}

InitProd ==
    /\ sort_order = <<"Ascending">>
    /\ NoComparison
    /\ streams \in {<<StreamOf(1, ks)>> : ks \in KeySeqs(ProdKeyLists)}
    /\ producers = <<NewProducer>>
    /\ last = NotCalled /\ advanced = <<>> /\ peek_run = NoRun
    /\ NoMerge
    /\ NoTasks
    /\ NoRetry
    /\ NoCollector

\* some earlier call on the producer has raised StopAsyncIteration
EndSeen == last.op # "none" /\ (last.ended \/ RaisedExc(last.result, "StopAsyncIteration"))

\* the call before this one was the same call and raised a fetch failure
IsRetry(op) ==
    last.op = op /\ Raised(last.result) /\ last.result.exc # "StopAsyncIteration"

\* await producer.peek()
Peek ==
    \E out \in ProducerPeek(producers[1], streams[1]) :
        /\ producers' = [producers EXCEPT ![1] = out.pr]
        /\ last' = [op |-> "peek", held |-> producers[1].cur_item,
                    result |-> out.result, calls |-> out.calls,
                    before |-> producers[1], ended |-> EndSeen, retry |-> IsRetry("peek")]
        /\ peek_run' = IF Returned(out.result)
                       THEN [items |-> peek_run.items \cup {out.result.val},
                             peeks |-> Min(peek_run.peeks + 1, 2),
                             calls |-> peek_run.calls + out.calls]
                       ELSE NoRun
        /\ UNCHANGED <<taskVars, topVars, retry, sort_order, cmpVars, streams, advanced, mergeVars>>

\* await producer.__anext__()
Advance ==
    \E out \in ProducerAnext(producers[1], streams[1]) :
        /\ producers' = [producers EXCEPT ![1] = out.pr]
        /\ last' = [op |-> "advance", held |-> producers[1].cur_item,
                    result |-> out.result, calls |-> out.calls,
                    before |-> producers[1], ended |-> EndSeen, retry |-> IsRetry("advance")]
        /\ advanced' = IF Returned(out.result) THEN Append(advanced, out.result.val)
                       ELSE advanced
        /\ peek_run' = NoRun
        /\ UNCHANGED <<taskVars, topVars, retry, sort_order, cmpVars, streams, mergeVars>>

NextProd == Peek \/ Advance

SpecProd == InitProd /\ [][NextProd]_vars

\* ------------------------------------------------------------ Spec
\* The MergeCoordinator over NumParts producers (spec 4.4): the first pull peeks
\* every producer, in whatever order their fetches complete; every pull then
\* selects the minimal live producer under the orderby comparator, advances
\* it, releases its item and peeks it again.
Parts == 1..NumParts

\* partition_key_target_range["minInclusive"] of producer p: ranges are
\* disjoint, so the lower bounds are distinct; p-th smallest for producer p.
MinInclusiveOf(p) == [tag |-> "String", v |-> p]

MergeKeyLists == {<<PyNumber(0)>>, <<PyNumber(1)>>, <<PyStr("a")>>}

\* The order the claims state, written from the spec (3, 4.2, 4.3): keys by
\* tag rank, then by value, the direction folded in, position by position;
\* then the range's lower bound.
RefKeyCmp(a, b) ==
    LET TagRank(t) == CASE t = "Undefined" -> 1 [] t = "Null" -> 2 [] t = "Boolean" -> 3
                        [] t = "Number" -> 4 [] t = "String" -> 5
    IN  IF TagRank(a.tag) # TagRank(b.tag) THEN Sign(TagRank(a.tag) - TagRank(b.tag))
        ELSE Sign(a.v - b.v)

RECURSIVE RefKeysCmpFrom(_, _, _, _)
RefKeysCmpFrom(k1, k2, so, i) ==
    IF i > Len(so) THEN 0
    ELSE LET c == RefKeyCmp(k1[i], k2[i])
         IN  IF c # 0 THEN (IF so[i] = "Descending" THEN -c ELSE c)
             ELSE RefKeysCmpFrom(k1, k2, so, i + 1)

RefItemCmp(x, y, so) ==
    LET c == RefKeysCmpFrom(x.orderByItems, y.orderByItems, so, 1)
    IN  IF c # 0 THEN c ELSE Sign(x.rid[1] - y.rid[1])

\* a partition returns its items sorted under the sort order
LocallySorted(keyseq, so) ==
    \A i \in 1..(Len(keyseq) - 1) : RefKeysCmpFrom(keyseq[i], keyseq[i + 1], so, 1) <= 0

Init ==
    /\ sort_order \in {<<"Ascending">>, <<"Descending">>}
    /\ NoComparison
    /\ \E ks \in [Parts -> {k \in KeySeqs(MergeKeyLists) : LocallySorted(k, sort_order)}] :
            streams = [p \in Parts |-> StreamOf(p, ks[p])]
    /\ producers = [p \in Parts |-> NewProducer]
    /\ last = NotCalled /\ advanced = <<>> /\ peek_run = NoRun
    /\ mstate = "Idle" /\ pending = Parts /\ live = {}
    /\ output = <<>> /\ pulled = NotCalled
    /\ NoTasks
    /\ NoRetry
    /\ NoCollector

\* comparator.compare(producer p, producer q): both peeks, then the comparison
ProducerCompare(p, q) ==
    OrderByCompare(producers[p].cur_item, producers[q].cur_item,
                   MinInclusiveOf(p), MinInclusiveOf(q), sort_order)

\* the coordinator staying in Draining when its live set is empty
StateOfNeverDone(l) == IF l = Parts /\ l # {} THEN "Active" ELSE "Draining"

StateOf(l) == IF l = {} THEN "Done" ELSE IF l = Parts THEN "Active" ELSE "Draining"

\* First pull, step 1: the peek of producer p completes. A producer at its
\* end never enters the live set; a failed fetch aborts the merge.
Prime(p) ==
    /\ mstate = "Idle" /\ p \in pending
    /\ \E out \in ProducerPeek(producers[p], streams[p]) :
        /\ producers' = [producers EXCEPT ![p] = out.pr]
        /\ IF Returned(out.result)
           THEN /\ live' = live \cup {p}
                /\ pending' = pending \ {p}
                /\ mstate' = IF pending' = {} THEN StateOf(live') ELSE "Idle"
                /\ pulled' = pulled
           ELSE IF RaisedExc(out.result, "StopAsyncIteration")
           THEN /\ live' = live
                /\ pending' = pending \ {p}
                /\ mstate' = IF pending' = {} THEN StateOf(live') ELSE "Idle"
                /\ pulled' = pulled
           ELSE /\ mstate' = "Failed"
                /\ pulled' = out.result
                /\ UNCHANGED <<live, pending>>
    /\ UNCHANGED <<taskVars, topVars, retry, sort_order, cmpVars, streams, last, advanced, peek_run, output>>

\* Steps 2-3 of a pull: select the minimal live producer; a comparison that
\* raises aborts the merge with nothing released.
CompareErrors ==
    {ProducerCompare(p, q) : p, q \in live} \ {r \in {ProducerCompare(p, q) : p, q \in live} : Returned(r)}

Minimal(m) == \A q \in live \ {m} : ProducerCompare(m, q).val <= 0

Pull ==
    /\ mstate \in {"Active", "Draining"}
    /\ IF CompareErrors # {}
       THEN /\ mstate' = "Failed"
            /\ pulled' \in CompareErrors
            /\ UNCHANGED <<producers, live, output>>
       ELSE \E m \in live :
            /\ Minimal(m)
            /\ \E a \in ProducerAnext(producers[m], streams[m]) :
               \E b \in ProducerPeek(a.pr, streams[m]) :
                /\ Returned(a.result)
                /\ producers' = [producers EXCEPT ![m] = b.pr]
                /\ IF Returned(b.result)
                   THEN /\ live' = live
                        /\ mstate' = mstate
                        /\ output' = Append(output, a.result.val)
                        /\ pulled' = a.result
                   ELSE IF RaisedExc(b.result, "StopAsyncIteration")
                   THEN /\ live' = live \ {m}
                        /\ mstate' = StateOf(live')
                        /\ output' = Append(output, a.result.val)
                        /\ pulled' = a.result
                   ELSE /\ mstate' = "Failed"
                        /\ pulled' = b.result
                        /\ UNCHANGED <<live, output>>
    /\ UNCHANGED <<taskVars, topVars, retry, sort_order, cmpVars, streams, last, advanced, peek_run, pending>>

\* A pull once every producer is exhausted: EndOfSequence.
PullDone ==
    /\ mstate = "Done"
    /\ pulled' = Raise("StopAsyncIteration", <<>>)
    /\ UNCHANGED <<taskVars, topVars, retry, sort_order, cmpVars, prodVars, mstate, pending, live, output>>

Next == (\E p \in Parts : Prime(p)) \/ Pull \/ PullDone

Spec == Init /\ [][Next]_vars

\* the consumer keeps pulling: a pull that can be made is made
FairSpec == Spec /\ WF_vars(\E p \in Parts : Prime(p)) /\ WF_vars(Pull)

\* ------------------------------------------------------------ properties of the merge
\* C1: whatever the partitions' locally sorted streams and the pulls made,
\* no released item is smaller than the one released just before it, under
\* the orderby order with the direction folded in and the range's
\* minInclusive as the final tie-break.
C1_OutputOrdered ==
    \A i \in 1..(Len(output) - 1) : RefItemCmp(output[i], output[i + 1], sort_order) <= 0

\* a descending merge released four items, the first from the second range,
\* with equal keys of two ranges released in the order of their ranges
C1_Witness ==
    /\ sort_order = <<"Descending">> /\ Len(output) = 4
    /\ output[1].rid[1] = 2 /\ output[1].orderByItems # output[2].orderByItems
    /\ output[3].orderByItems = output[4].orderByItems
    /\ output[3].rid[1] = 1 /\ output[4].rid[1] = 2

AllItems == UNION {{streams[p][i] : i \in 1..Len(streams[p])} : p \in DOMAIN streams}

RECURSIVE ConcatStreams(_)
ConcatStreams(n) == IF n = 0 THEN <<>> ELSE ConcatStreams(n - 1) \o streams[n]

RECURSIVE InsertSorted(_, _)
InsertSorted(s, x) ==
    IF s = <<>> THEN <<x>>
    ELSE IF x <= Head(s) THEN <<x>> \o s
    ELSE <<Head(s)>> \o InsertSorted(Tail(s), x)

RECURSIVE SortAscending(_)
SortAscending(s) == IF s = <<>> THEN <<>> ELSE InsertSorted(SortAscending(Tail(s)), Head(s))

NumericKey(seq) == [i \in 1..Len(seq) |-> seq[i].orderByItems[1].v]

\* C2: for partitions sorted ascending by one numeric key, however their
\* items are split into pages, the complete output holds every item of
\* every partition exactly once, in the order of concatenating the
\* partitions and sorting by the key; and no item is ever released twice.
C2_MergeIsSortedUnion ==
    /\ Cardinality({output[i] : i \in 1..Len(output)}) = Len(output)
    /\ (mstate = "Done" /\ sort_order = <<"Ascending">>
          /\ \A x \in AllItems : x.orderByItems[1].tag = "Number") =>
            /\ {output[i] : i \in 1..Len(output)} = AllItems
            /\ Len(output) = Cardinality(AllItems)
            /\ NumericKey(output) = SortAscending(NumericKey(ConcatStreams(NumParts)))

\* an ascending merge of two two-item ranges has completed, its output
\* alternating between the ranges
C2_Witness ==
    /\ mstate = "Done" /\ sort_order = <<"Ascending">> /\ Len(output) = 4
    /\ \A x \in AllItems : x.orderByItems[1].tag = "Number"
    /\ output[1].rid[1] = 1 /\ output[2].rid[1] = 2 /\ output[3].rid[1] = 1
    /\ NumericKey(output) = <<0, 0, 1, 1>>

\* producer p has handed out every item of its range and holds none
Exhausted(p) == producers[p].cur_item = PyNone /\ producers[p].popped = Len(streams[p])

\* C13: a merge that has met a fetch failure or a comparator validation
\* failure has surfaced that error to the consumer (not an item, not the end
\* of the sequence); and a merge that has not failed has dropped from its
\* live set only producers that are truly exhausted, so it never completes
\* short of an item.
C13_ErrorSurfaces ==
    /\ mstate = "Failed" =>
            /\ Raised(pulled)
            /\ pulled.exc \in {"CosmosHttpResponseError", "ValueError"}
    /\ mstate # "Failed" => \A p \in Parts \ (live \cup pending) : Exhausted(p)
    /\ mstate = "Done" => Len(output) = Cardinality(AllItems)

\* after one item was released, the fetch behind the re-peek of its producer
\* failed while the other range was still live: the pull raised the failure
C13_Witness ==
    /\ mstate = "Failed" /\ Len(output) = 1 /\ live = Parts
    /\ pulled = Raise("CosmosHttpResponseError", <<"fetch failed">>)
    /\ \E p \in Parts : producers[p].popped = 2 /\ producers[p].cur_item = PyNone

\* C19: in Done every producer is exhausted and the live set is empty; a
\* pull in Done raises StopAsyncIteration, releases nothing and leaves the
\* coordinator in Done.
C19_DoneIsTerminal ==
    /\ [](mstate = "Done" => live = {} /\ pending = {} /\ \A p \in Parts : Exhausted(p))
    /\ [][mstate = "Done" =>
            /\ mstate' = "Done" /\ output' = output /\ producers' = producers
            /\ pulled' = Raise("StopAsyncIteration", <<>>)]_vars

\* a pull on a completed four-item merge raised StopAsyncIteration
C19_Witness ==
    /\ mstate = "Done" /\ Len(output) = 4
    /\ pulled = Raise("StopAsyncIteration", <<>>)

\* ------------------------------------------------------------ properties of the producer
\* C3: consecutive peek() calls with no __anext__() in between that return an
\* item all return the same item, and together make at most one call of the
\* underlying self._ex_context.__anext__().
C3_PeekIdempotent ==
    /\ Cardinality(peek_run.items) <= 1
    /\ peek_run.calls <= 1
    /\ (last.op = "peek" /\ last.held # PyNone) =>
            last.result = Return(last.held) /\ last.calls = 0

\* two or more peeks in a row returned the second item of the range, which
\* the first of them fetched
C3_Witness ==
    /\ peek_run.peeks = 2 /\ peek_run.calls = 1
    /\ last.op = "peek" /\ last.calls = 0
    /\ Len(streams[1]) = 2 /\ peek_run.items = {streams[1][2]}

\* C4: when _cur_item holds a peeked item, __anext__() returns exactly that
\* item, resets _cur_item and fetches nothing; and whatever the interleaving
\* of peek() and __anext__(), the items __anext__() has returned are the
\* range's items in order, none skipped or repeated.
C4_AdvanceFollowsFetchOrder ==
    /\ (last.op = "advance" /\ last.held # PyNone) =>
            /\ last.result = Return(last.held)
            /\ producers[1].cur_item = PyNone
            /\ last.calls = 0
    /\ Len(advanced) <= Len(streams[1])
    /\ advanced = SubSeq(streams[1], 1, Len(advanced))
    /\ producers[1].popped =
           Len(advanced) + (IF producers[1].cur_item = PyNone THEN 0 ELSE 1)
    /\ producers[1].cur_item # PyNone =>
           producers[1].cur_item = streams[1][Len(advanced) + 1]

\* the second item was peeked and then handed out by __anext__()
C4_Witness ==
    /\ Len(advanced) = 2 /\ last.op = "advance" /\ last.held = streams[1][2]
    /\ last.calls = 0 /\ producers[1].cur_item = PyNone

\* the exception a failed fetch raises out of self._ex_context.__anext__()
FetchFailure == Raise("CosmosHttpResponseError", <<"fetch failed">>)

\* C15: a peek() or __anext__() during which the fetch fails raises that very
\* failure and leaves the producer (_cur_item and the execution context's
\* position) as it was before the call; and the same call made again right
\* after the failure, if it returns, returns the next item of the range in
\* order, which is the item the failed call was fetching.
C15_FetchFailureLeavesProducer ==
    /\ (last.op # "none" /\ Raised(last.result)
            /\ last.result.exc # "StopAsyncIteration") =>
            /\ last.result = FetchFailure
            /\ last.calls = 1 /\ last.held = PyNone
            /\ producers[1] = last.before
    /\ (last.op # "none" /\ last.retry /\ Returned(last.result)) =>
            /\ last.held = PyNone
            /\ last.result.val = streams[1][last.before.popped + 1]
            /\ last.before.popped = Len(advanced) - (IF last.op = "advance" THEN 1 ELSE 0)

\* the fetch of the second item failed during peek(); the peek() made again
\* returned the second item
C15_Witness ==
    /\ last.op = "peek" /\ last.retry /\ Len(streams[1]) = 2
    /\ last.result = Return(streams[1][2]) /\ Len(advanced) = 1

\* C16 as stated: once a call on the producer has raised StopAsyncIteration,
\* every later peek() and __anext__() raises StopAsyncIteration without
\* calling self._ex_context.__anext__() again.
C16_NoFetchAfterExhaustion ==
    (last.op # "none" /\ last.ended) =>
        /\ last.calls = 0
        /\ RaisedExc(last.result, "StopAsyncIteration")

\* C20: the producer holds at most one item that its execution context has
\* handed out and __anext__() has not returned, and it is _cur_item; a held
\* item is none of the items __anext__() has returned.
C20_LookaheadOfOne ==
    /\ producers[1].popped - Len(advanced) \in {0, 1}
    /\ producers[1].popped - Len(advanced) = 1 <=> producers[1].cur_item # PyNone
    /\ producers[1].cur_item # PyNone =>
            \A i \in 1..Len(advanced) : advanced[i] # producers[1].cur_item

\* after __anext__() returned the first item, peek() holds the second, whose
\* keys equal the first's
C20_Witness ==
    /\ Len(advanced) = 1 /\ last.op = "peek" /\ Len(streams[1]) = 2
    /\ producers[1].cur_item = streams[1][2]
    /\ streams[1][1].orderByItems = streams[1][2].orderByItems

\* ------------------------------------------------------------ properties of the comparators
Keys(i) == docs[i].orderByItems

\* The key lists of producers i and j pass _validate_orderby_items' checks:
\* both have the sort order's length and the same type at every position.
SameShape(i, j) ==
    /\ Len(Keys(i)) = Len(Keys(j))
    /\ Len(Keys(i)) = Len(sort_order)
    /\ \A k \in 1..Len(Keys(i)) : Keys(i)[k].tag = Keys(j)[k].tag

\* Positions at which the single-key comparison of the two lists is not 0.
DiffPositions(i, j) ==
    {k \in 1..Min(Len(Keys(i)), Len(Keys(j))) :
        OrderByHelperCompare(Keys(i)[k], Keys(j)[k]) # Return(0)}

FirstDiff(i, j) == CHOOSE k \in DiffPositions(i, j) : \A m \in DiffPositions(i, j) : k <= m

SingleKey == Len(sort_order) = 1 /\ Len(Keys(1)) = 1 /\ Len(Keys(2)) = 1

\* C5 as stated: for any equal-length key lists, over all key tags, the
\* comparator returns compare(a,b) = -compare(b,a) and is transitive.
C5_TotalOrderAllTags ==
    cmp.op = "order" =>
        /\ Returned(cmp.ab) /\ Returned(cmp.ba) /\ Returned(cmp.bc) /\ Returned(cmp.ac)
        /\ cmp.ab.val = -cmp.ba.val
        /\ (cmp.ab.val <= 0 /\ cmp.bc.val <= 0 => cmp.ac.val <= 0)

\* C5 amended: on key lists that pass validation (same length as the sort
\* order, same type tag at every position) the comparator returns, with
\* compare(a,b) = -compare(b,a) and transitively; on lists whose tags differ
\* at a position it raises ValueError for both argument orders.
C5_TotalOrderValidated ==
    cmp.op = "order" =>
        /\ Returned(cmp.ab) <=> SameShape(1, 2)
        /\ Returned(cmp.ba) <=> SameShape(1, 2)
        /\ ~SameShape(1, 2) => RaisedExc(cmp.ab, "ValueError") /\ RaisedExc(cmp.ba, "ValueError")
        /\ Returned(cmp.ab) => cmp.ab.val = -cmp.ba.val
        /\ (Returned(cmp.ab) /\ Returned(cmp.bc) /\ cmp.ab.val <= 0 /\ cmp.bc.val <= 0)
              => Returned(cmp.ac) /\ cmp.ac.val <= 0

\* three validated two-key lists in a strict chain a < b < c
C5_Witness ==
    /\ cmp.op = "order" /\ Len(sort_order) = 2 /\ sort_order[2] = "Descending"
    /\ Returned(cmp.ab) /\ Returned(cmp.bc) /\ Returned(cmp.ac)
    /\ cmp.ab.val < 0 /\ cmp.bc.val < 0 /\ cmp.ac.val < 0 /\ cmp.ba.val > 0
    /\ Keys(1)[1] = Keys(2)[1] /\ Keys(2)[1] # Keys(3)[1]

\* C6 as stated: under one sort key, the orderby comparison of two producers
\* whose keys have different tags is negative (Ascending) or positive
\* (Descending) when the first tag ranks lower.
C6_CrossTypeRankStreaming ==
    (cmp.op = "orderby" /\ SingleKey
        /\ getTypeOrd(Keys(1)[1]) < getTypeOrd(Keys(2)[1])) =>
        /\ Returned(cmp.fwd)
        /\ sort_order[1] = "Ascending" => cmp.fwd.val < 0
        /\ sort_order[1] = "Descending" => cmp.fwd.val > 0

\* C6 amended: under one sort key and for keys with different tags, the first
\* ranking lower in Undefined < Null < Boolean < Number < String, the
\* comparison that folds the direction without validating
\* (_NonStreamingOrderByComparator) is negative under Ascending and positive
\* under Descending; the streaming producer comparator raises ValueError.
C6_CrossTypeRank ==
    LET TagRank(t) == CASE t = "Undefined" -> 1 [] t = "Null" -> 2 [] t = "Boolean" -> 3
                        [] t = "Number" -> 4 [] t = "String" -> 5
    IN  (SingleKey /\ TagRank(Keys(1)[1].tag) < TagRank(Keys(2)[1].tag)) =>
        /\ cmp.op = "nonstreaming" =>
              /\ Returned(cmp.fwd) /\ Returned(cmp.rev)
              /\ sort_order[1] = "Ascending" => cmp.fwd.val < 0 /\ cmp.rev.val > 0
              /\ sort_order[1] = "Descending" => cmp.fwd.val > 0 /\ cmp.rev.val < 0
        /\ cmp.op = "orderby" =>
              RaisedExc(cmp.fwd, "ValueError") /\ RaisedExc(cmp.rev, "ValueError")

\* [Number 1] against [String "a"], Descending: positive
C6_Witness ==
    /\ cmp.op = "nonstreaming" /\ SingleKey /\ sort_order[1] = "Descending"
    /\ Keys(1)[1] = PyNumber(1) /\ Keys(2)[1] = PyStr("a")
    /\ Returned(cmp.fwd) /\ cmp.fwd.val > 0

\* C7: on key lists that pass validation, the first position whose single-key
\* comparison c is not 0 decides: the result has the sign of c under
\* Ascending and the opposite sign under Descending, whatever follows.
C7_FirstDifferenceDecides ==
    (cmp.op = "orderby" /\ SameShape(1, 2) /\ DiffPositions(1, 2) # {}) =>
        LET i == FirstDiff(1, 2)
            c == OrderByHelperCompare(Keys(1)[i], Keys(2)[i]).val
        IN  /\ Returned(cmp.fwd)
            /\ sort_order[i] = "Ascending" => Sign(cmp.fwd.val) = Sign(c)
            /\ sort_order[i] = "Descending" => Sign(cmp.fwd.val) = -Sign(c)

\* first position ties, the second decides under Descending although the
\* partition ranges would order the producers the other way
C7_Witness ==
    /\ cmp.op = "orderby" /\ SameShape(1, 2) /\ Len(sort_order) = 2
    /\ DiffPositions(1, 2) = {2} /\ sort_order = <<"Ascending", "Descending">>
    /\ Keys(1)[2] = PyNumber(0) /\ Keys(2)[2] = PyNumber(1)
    /\ Returned(cmp.fwd) /\ cmp.fwd.val > 0

\* C8: key lists of different lengths, or of a length other than the sort
\* order's, make the comparison raise ValueError and return no result.
C8_LengthMismatchRaises ==
    (cmp.op = "orderby"
        /\ (Len(Keys(1)) # Len(Keys(2)) \/ Len(Keys(1)) # Len(sort_order)
              \/ Len(Keys(2)) # Len(sort_order))) =>
        /\ RaisedExc(cmp.fwd, "ValueError") /\ ~Returned(cmp.fwd)
        /\ RaisedExc(cmp.rev, "ValueError") /\ ~Returned(cmp.rev)
        /\ cmp.fwd.msg[1] \in {"orderByItems cannot have different size",
                               "orderByItems cannot have a different size than sort orders."}

\* one item has 2 keys, the other 1, the sort order has 2 entries
C8_Witness ==
    /\ cmp.op = "orderby" /\ Len(sort_order) = 2
    /\ Len(Keys(1)) = 2 /\ Len(Keys(2)) = 1
    /\ cmp.fwd = Raise("ValueError", <<"orderByItems cannot have different size">>)

\* C9: key lists of the sort order's length whose types differ at some
\* position make the comparison raise a ValueError naming the two types.
C9_TypeMismatchRaises ==
    (cmp.op = "orderby" /\ Len(Keys(1)) = Len(Keys(2)) /\ Len(Keys(1)) = Len(sort_order)
        /\ \E k \in 1..Len(Keys(1)) : Keys(1)[k].tag # Keys(2)[k].tag) =>
        LET i == CHOOSE k \in 1..Len(Keys(1)) :
                    /\ Keys(1)[k].tag # Keys(2)[k].tag
                    /\ \A m \in 1..(k - 1) : Keys(1)[m].tag = Keys(2)[m].tag
        IN  /\ ~Returned(cmp.fwd)
            /\ cmp.fwd = Raise("ValueError", <<"Expected {}, but got {}.",
                                              getTypeStr(Keys(1)[i]), getTypeStr(Keys(2)[i])>>)

\* Null against Number at the second position
C9_Witness ==
    /\ cmp.op = "orderby" /\ Len(sort_order) = 2 /\ Len(Keys(1)) = 2 /\ Len(Keys(2)) = 2
    /\ Keys(1)[1] = Keys(2)[1] /\ Keys(1)[2] = PyNone /\ Keys(2)[2] = PyNumber(1)
    /\ cmp.fwd = Raise("ValueError", <<"Expected {}, but got {}.", "Null", "Number">>)

\* C10 as stated: the partition-range comparator returns the natural
\* comparison of the two minInclusive, and a negative result (no error) when
\* the first is None and the second is present.
C10_NoneBoundIsLeast ==
    cmp.op = "range" =>
        LET a == docs[1].minInclusive
            b == docs[2].minInclusive
        IN  /\ Returned(cmp.fwd)
            /\ (a # PyNone /\ b # PyNone) => cmp.fwd.val = Sign(a.v - b.v)
            /\ (a = PyNone /\ b # PyNone) => cmp.fwd.val < 0

\* C11: when the two peeked key lists are identical (and of the sort order's
\* length), the orderby comparator's result is the partition-range
\* comparison of the two producers, whatever the directions: for two string
\* lower bounds it is negative exactly when the first producer's range has
\* the smaller minInclusive, and the converse call gives the opposite sign.
C11_TieFallsToRange ==
    (cmp.op = "orderby" /\ Keys(1) = Keys(2) /\ Len(Keys(1)) = Len(sort_order)) =>
        LET a == docs[1].minInclusive
            b == docs[2].minInclusive
        IN  /\ cmp.fwd = PartitionKeyRangeCompare(a, b)
            /\ cmp.rev = PartitionKeyRangeCompare(b, a)
            /\ (a # PyNone /\ b # PyNone) =>
                  /\ Returned(cmp.fwd) /\ Returned(cmp.rev)
                  /\ cmp.fwd.val = Sign(a.v - b.v)
                  /\ cmp.rev.val = -cmp.fwd.val

\* identical two-key lists under <<Descending, Descending>>: the producer of
\* the range starting at "" comes before the one starting at "05C1DFFFFFFFFC"
C11_Witness ==
    /\ cmp.op = "orderby" /\ sort_order = <<"Descending", "Descending">>
    /\ Keys(1) = <<PyNumber(1), PyStr("a")>> /\ Keys(2) = Keys(1)
    /\ docs[1].minInclusive = PyStr("") /\ docs[2].minInclusive = PyStr("05C1DFFFFFFFFC")
    /\ cmp.fwd = Return(-1) /\ cmp.rev = Return(1)

\* ------------------------------------------------------------ SpecTop
\* The BoundedTopResultCollector (spec 4.5) over the items of NumParts
\* partition key ranges, offered in any arrival order that keeps each
\* range's own order; every item is wrapped in a _NonStreamingItemResultProducer
\* and compared with _NonStreamingOrderByComparator.
TopKeys == {PyNumber(0), PyNumber(1)}

TopStreams(so) ==
    [Parts -> {k \in KeySeqs([1..Len(so) -> TopKeys]) : LocallySorted(k, so)}]

\* insert x into the retained items, best first, behind the items it does
\* not strictly precede
RECURSIVE CollectorInsert(_, _, _)
CollectorInsert(items, x, so) ==
    IF items = <<>> THEN <<x>>
    ELSE IF NonStreamingCompare(x, Head(items), so).val < 0 THEN <<x>> \o items
    ELSE <<Head(items)>> \o CollectorInsert(Tail(items), x, so)

\* one incoming item: under capacity it is inserted; at capacity it replaces
\* the worst retained item only if it is strictly better
CollectorAdd(items, x, capacity, so) ==
    IF Len(items) < capacity THEN CollectorInsert(items, x, so)
    ELSE IF NonStreamingCompare(x, items[Len(items)], so).val < 0
    THEN CollectorInsert(SubSeq(items, 1, Len(items) - 1), x, so)
    ELSE items

InitTop ==
    /\ sort_order \in SortOrders
    /\ NoComparison
    /\ \E ks \in TopStreams(sort_order) : streams = [p \in Parts |-> StreamOf(p, ks[p])]
    /\ producers = <<>> /\ last = NotCalled /\ advanced = <<>> /\ peek_run = NoRun
    /\ NoMerge
    /\ NoTasks
    /\ NoRetry
    /\ \E K \in 1..(NumParts * MaxItems) :
            /\ K <= Cardinality(AllItems)
            /\ collector = [capacity |-> K, items |-> <<>>, offered |-> [p \in Parts |-> 0]]

\* the next item of range p reaches the collector
Offer(p) ==
    /\ collector.capacity > 0
    /\ collector.offered[p] < Len(streams[p])
    /\ collector' = [collector EXCEPT
            !.offered[p] = @ + 1,
            !.items = CollectorAdd(@, streams[p][collector.offered[p] + 1],
                                   collector.capacity, sort_order)]
    /\ UNCHANGED <<retry, sort_order, cmpVars, prodVars, mergeVars, taskVars>>

NextTop == \E p \in Parts : Offer(p)

SpecTop == InitTop /\ [][NextTop]_vars

\* x is output before y by the full ordered merge: the orderby comparator on
\* the two items and their ranges, and within one range the range's order
MergeBefore(x, y) ==
    IF x.rid[1] = y.rid[1] THEN x.rid[2] < y.rid[2]
    ELSE OrderByCompare(x, y, MinInclusiveOf(x.rid[1]), MinInclusiveOf(y.rid[1]),
                        sort_order).val < 0

\* position of x in the full merge's output
MergeRank(x) == 1 + Cardinality({y \in AllItems : MergeBefore(y, x)})

AllOffered == \A p \in Parts : collector.offered[p] = Len(streams[p])

\* key lists of the item(s) at position i of the full merge's output
KeysOfRank(i) == {x.orderByItems : x \in {y \in AllItems : MergeRank(y) = i}}

\* C12 as stated: once every item has been offered, the collector of
\* capacity K holds K items, and at every position i an item carrying the
\* key list of the i-th item of the full merge's output (the claim asks for
\* the very same item; already its key list differs).
C12_TopKIsMergePrefix ==
    (collector.capacity > 0 /\ AllOffered) =>
        /\ Len(collector.items) = collector.capacity
        /\ \A i \in 1..Len(collector.items) :
              collector.items[i].orderByItems \in KeysOfRank(i)

\* ------------------------------------------------------------ SpecConc
\* The MergeCoordinator with one task per producer (spec 4.4, 5): a producer
\* that has to be peeked has its task start the fetch, and the fetches of
\* different producers complete in any order. A pull selects among the
\* peeked items only, takes the minimal producer's item, has that producer
\* peeked again and then returns the item. The consumer may cancel.
TaskEvent(p, ev) == [p |-> p, ev |-> ev]

\* the selection runs without waiting for the outstanding peeks
PeekMayBeOutstanding == TRUE

\* the coordinator selects, and returns, once no producer is left to peek
NoPeekOutstanding == pending = {}

\* the task of producer p starts the fetch of a cancelled merge all the same
StartFetchAlways(p) ==
    /\ p \in pending /\ p \notin fetching
    /\ fetching' = fetching \cup {p}
    /\ UNCHANGED <<retry, sort_order, cmpVars, prodVars, mergeVars, selected, cancelled,
                   task_log, topVars>>

\* the task of producer p calls peek() and suspends in the fetch
StartFetch(p) ==
    /\ ~cancelled /\ mstate \in {"Idle", "Active", "Draining"}
    /\ p \in pending /\ p \notin fetching
    /\ fetching' = fetching \cup {p}
    /\ UNCHANGED <<retry, sort_order, cmpVars, prodVars, mergeVars, selected, cancelled,
                   task_log, topVars>>

\* the fetch of producer p completes and its peek() returns or raises
CompleteFetch(p) ==
    /\ ~cancelled /\ mstate \in {"Idle", "Active", "Draining"}
    /\ p \in fetching
    /\ \E out \in ProducerPeek(producers[p], streams[p]) :
        /\ producers' = [producers EXCEPT ![p] = out.pr]
        /\ IF Returned(out.result) \/ RaisedExc(out.result, "StopAsyncIteration")
           THEN /\ fetching' = fetching \ {p}
                /\ pending' = pending \ {p}
                /\ live' = IF Returned(out.result) THEN live \cup {p} ELSE live \ {p}
                /\ mstate' = IF mstate = "Idle" /\ pending' = {} THEN StateOf(live')
                             ELSE mstate
                /\ UNCHANGED <<pulled, selected>>
           ELSE /\ mstate' = "Failed"
                /\ pulled' = out.result
                /\ selected' = PyNone
                /\ fetching' = {}
                /\ UNCHANGED <<live, pending>>
    /\ task_log' = Append(task_log, TaskEvent(p, "done"))
    /\ UNCHANGED <<retry, sort_order, cmpVars, streams, last, advanced, peek_run, output,
                   cancelled, topVars>>

\* a pull selects the minimal live producer and advances it; the producer
\* leaves the live set until it has been peeked again
PullSelect ==
    /\ ~cancelled /\ mstate \in {"Active", "Draining"}
    /\ selected = PyNone /\ live # {} /\ NoPeekOutstanding
    /\ IF CompareErrors # {}
       THEN /\ mstate' = "Failed"
            /\ pulled' \in CompareErrors
            /\ fetching' = {}
            /\ UNCHANGED <<producers, pending, live, selected>>
       ELSE \E m \in live :
            /\ Minimal(m)
            /\ \E a \in ProducerAnext(producers[m], streams[m]) :
                /\ Returned(a.result)
                /\ producers' = [producers EXCEPT ![m] = a.pr]
                /\ selected' = a.result.val
            /\ pending' = pending \cup {m}
            /\ live' = live \ {m}
            /\ UNCHANGED <<mstate, pulled, fetching>>
    /\ UNCHANGED <<retry, sort_order, cmpVars, streams, last, advanced, peek_run, output,
                   cancelled, task_log, topVars>>

\* the pull returns the selected item once its producer has been peeked again
PullReturn ==
    /\ ~cancelled /\ mstate \in {"Active", "Draining"}
    /\ selected # PyNone /\ NoPeekOutstanding
    /\ output' = Append(output, selected)
    /\ pulled' = Return(selected)
    /\ selected' = PyNone
    /\ mstate' = StateOf(live)
    /\ UNCHANGED <<retry, sort_order, cmpVars, prodVars, pending, live, fetching, cancelled,
                   task_log, topVars>>

\* a pull on a merge that has raised emitting the next item all the same
PullAfterErrorResumes ==
    /\ mstate \in {"Failed", "Cancelled"}
    /\ \E m \in live :
        /\ output' = Append(output, producers[m].cur_item)
        /\ pulled' = Return(producers[m].cur_item)
    /\ UNCHANGED <<retry, sort_order, cmpVars, prodVars, mstate, pending, live, taskVars, topVars>>

\* a pull on a merge that has raised a fatal error raises again
PullAfterError ==
    /\ mstate \in {"Failed", "Cancelled"}
    /\ pulled' \in {pulled, Raise("StopAsyncIteration", <<>>)}
    /\ UNCHANGED <<retry, sort_order, cmpVars, prodVars, mstate, pending, live, output,
                   taskVars, topVars>>

\* the consumer cancels the merge sequence
Cancel ==
    /\ ~cancelled /\ mstate \in {"Idle", "Active", "Draining"}
    /\ cancelled' = TRUE
    /\ mstate' = "Cancelled"
    /\ pulled' = Raise("CancelledError", <<>>)
    /\ selected' = PyNone
    /\ UNCHANGED <<retry, sort_order, cmpVars, prodVars, pending, live, output, fetching,
                   task_log, topVars>>

\* the cancellation reaches the task of producer p, suspended in its fetch
StopTask(p) ==
    /\ cancelled /\ p \in fetching
    /\ fetching' = fetching \ {p}
    /\ task_log' = Append(task_log, TaskEvent(p, "stopped"))
    /\ UNCHANGED <<retry, sort_order, cmpVars, prodVars, mergeVars, selected, cancelled, topVars>>

NextConc ==
    \/ \E p \in Parts : StartFetch(p)
    \/ \E p \in Parts : CompleteFetch(p)
    \/ PullSelect
    \/ PullReturn
    \/ PullDone
    \/ PullAfterError
    \/ Cancel
    \/ \E p \in Parts : StopTask(p)

SpecConc == Init /\ [][NextConc]_vars

\* a cancelled task is stopped at its suspension point without further delay
FairSpecConc == SpecConc /\ WF_vars(\E p \in Parts : StopTask(p))

\* ------------------------------------------------------------ properties of the concurrent merge
\* C14: a merge that has raised a fatal error (a validation failure, a fetch
\* failure or the cancellation) holds no item to return, and every later
\* step leaves it in that state with its output unchanged, a pull raising
\* again.
C14_NoItemAfterError ==
    /\ [](mstate \in {"Failed", "Cancelled"} => Raised(pulled) /\ selected = PyNone)
    /\ [][(mstate \in {"Failed", "Cancelled"}) =>
            /\ mstate' = mstate
            /\ output' = output
            /\ Raised(pulled')]_vars

\* after one item was released a fetch failed; a later pull found a producer
\* still live and raised without releasing its item
C14_Witness ==
    /\ mstate = "Failed" /\ Len(output) = 1 /\ live # {}
    /\ pulled = Raise("StopAsyncIteration", <<>>)
    /\ \E i \in 1..Len(task_log) : task_log[i].ev = "done"

\* x comes before y in the order the sort order and the ranges define
RefBefore(x, y) ==
    LET c == RefItemCmp(x, y, sort_order)
    IN  c < 0 \/ (c = 0 /\ x.rid[2] < y.rid[2])

RefRank(x) == 1 + Cardinality({y \in AllItems : RefBefore(y, x)})

\* C17: whatever the order in which the producers' fetches start and
\* complete and however the pages fall, the i-th item released is the i-th
\* item of the one sequence that the inputs determine (all items in
\* comparator order), as is the item a pull has selected; a merge that
\* completes has released them all.
C17_OutputIndependentOfFetchOrder ==
    /\ \A i \in 1..Len(output) : RefRank(output[i]) = i
    /\ selected # PyNone => RefRank(selected) = Len(output) + 1
    /\ mstate = "Done" => Len(output) = Cardinality(AllItems)

\* the first fetch of range 2 completed before that of range 1, and the
\* completed merge still released range 1's item first
C17_Witness ==
    /\ mstate = "Done" /\ Len(output) = 4
    /\ task_log[1] = TaskEvent(2, "done") /\ task_log[2] = TaskEvent(1, "done")
    /\ output[1].rid[1] = 1 /\ output[2].rid[1] = 2
    /\ output[3].rid[1] = 2 /\ output[4].rid[1] = 1

\* C18: once the consumer has cancelled, no producer starts a fetch and no
\* fetch completes (no producer changes, nothing is released, the set of
\* outstanding fetches only shrinks), and every outstanding fetch is
\* stopped: the number of outstanding fetches reaches zero and stays zero.
C18_CancelStopsFetches ==
    /\ [][cancelled =>
            /\ cancelled'
            /\ fetching' \subseteq fetching
            /\ producers' = producers
            /\ output' = output]_vars
    /\ (cancelled ~> fetching = {})

\* the merge was cancelled with the fetches of both producers outstanding,
\* and both have been stopped
C18_Witness ==
    /\ cancelled /\ fetching = {} /\ pending = Parts
    /\ \E i, j \in 1..Len(task_log) :
            task_log[i] = TaskEvent(1, "stopped") /\ task_log[j] = TaskEvent(2, "stopped")

\* ------------------------------------------------------------ SpecKey
\* _OrderByHelper.compare on two single orderby items.
WideKeySamples == KeySamples \cup {PyBool(FALSE), PyStr(""), PyStr("b")}

InitKey ==
    /\ sort_order = <<"Ascending">>
    /\ docs \in [1..2 -> [orderByItems : [1..1 -> WideKeySamples], minInclusive : {PyStr("")}]]
    /\ cmp = NotCompared
    /\ NoProducers
    /\ NoMerge
    /\ NoTasks
    /\ NoRetry
    /\ NoCollector

\* await _OrderByHelper.compare(orderby_item1, orderby_item2) and the converse
CompareKeys ==
    /\ cmp = NotCompared
    /\ cmp' = [op |-> "key",
               fwd |-> OrderByHelperCompare(docs[1].orderByItems[1], docs[2].orderByItems[1]),
               rev |-> OrderByHelperCompare(docs[2].orderByItems[1], docs[1].orderByItems[1])]
    /\ UNCHANGED <<retry, sort_order, docs, prodVars, mergeVars, taskVars, topVars>>

NextKey == CompareKeys

SpecKey == InitKey /\ [][NextKey]_vars

\* ------------------------------------------------------------ properties of the single-key comparison
\* rank of a tag in Undefined < Null < Boolean < Number < String
KeyTagRank(k) ==
    CASE k.tag = "Undefined" -> 1 [] k.tag = "Null" -> 2 [] k.tag = "Boolean" -> 3
      [] k.tag = "Number" -> 4 [] k.tag = "String" -> 5

\* C24 as stated: for two keys of different tag rank the single-key
\* comparison returns exactly -1 or +1, the sign of the rank difference.
C24_RankDifferenceIsSign ==
    (cmp.op = "key" /\ KeyTagRank(Keys(1)[1]) # KeyTagRank(Keys(2)[1])) =>
        /\ Returned(cmp.fwd)
        /\ cmp.fwd.val = Sign(KeyTagRank(Keys(1)[1]) - KeyTagRank(Keys(2)[1]))

\* C24 amended: for two keys of different tag rank the single-key comparison
\* returns a non-zero integer that has the sign of the rank difference and
\* is the difference of the ordinals 0, 1, 2, 4, 5 of the two tags (between
\* -5 and 5, so -2 for Boolean against Number); the converse call returns
\* its negation.
C24_RankDifferenceHasSign ==
    (cmp.op = "key" /\ KeyTagRank(Keys(1)[1]) # KeyTagRank(Keys(2)[1])) =>
        LET Ordinal(k) == CASE k.tag = "Undefined" -> 0 [] k.tag = "Null" -> 1
                            [] k.tag = "Boolean" -> 2 [] k.tag = "Number" -> 4
                            [] k.tag = "String" -> 5
        IN  /\ Returned(cmp.fwd) /\ Returned(cmp.rev)
            /\ cmp.fwd.val # 0 /\ cmp.fwd.val \in -5..5
            /\ Sign(cmp.fwd.val) = Sign(KeyTagRank(Keys(1)[1]) - KeyTagRank(Keys(2)[1]))
            /\ cmp.fwd.val = Ordinal(Keys(1)[1]) - Ordinal(Keys(2)[1])
            /\ cmp.rev.val = -cmp.fwd.val

\* True against the number 1: -2
C24_Witness ==
    /\ cmp.op = "key" /\ Keys(1)[1] = PyBool(TRUE) /\ Keys(2)[1] = PyNumber(1)
    /\ cmp.fwd = Return(-2) /\ cmp.rev = Return(2)

\* C25: the single-key comparison returns, and returns 0 exactly when the two
\* keys have the same tag and the same value; so two Undefined keys and two
\* Null keys compare equal, and a Boolean never compares equal to a Number.
C25_ZeroIffSameKey ==
    cmp.op = "key" =>
        /\ Returned(cmp.fwd) /\ Returned(cmp.rev)
        /\ cmp.fwd.val = 0 <=> Keys(1)[1] = Keys(2)[1]
        /\ cmp.rev.val = 0 <=> Keys(1)[1] = Keys(2)[1]
        /\ (Keys(1)[1].tag = Keys(2)[1].tag /\ Keys(1)[1].tag \in {"Undefined", "Null"}) =>
              cmp.fwd.val = 0
        /\ (Keys(1)[1].tag = "Boolean" /\ Keys(2)[1].tag = "Number") => cmp.fwd.val # 0

\* the number 1 against True: not equal
C25_Witness ==
    /\ cmp.op = "key" /\ Keys(1)[1] = PyNumber(1) /\ Keys(2)[1] = PyBool(TRUE)
    /\ Returned(cmp.fwd) /\ cmp.fwd.val # 0

\* C27 as stated: on every pair of items and every sort order the
\* non-streaming comparator and the streaming orderby comparator (on two
\* producers peeking those items) both return, with results of the same
\* sign, or both raise.
C27_NonStreamingAgreesWithStreaming ==
    cmp.op = "nonstreaming" =>
        LET s == OrderByCompare(docs[1], docs[2], docs[1].minInclusive,
                                docs[2].minInclusive, sort_order)
        IN  /\ Returned(cmp.fwd) <=> Returned(s)
            /\ Returned(cmp.fwd) /\ Returned(s) => Sign(cmp.fwd.val) = Sign(s.val)

\* ------------------------------------------------------------ SpecDir
\* The orderby comparator under sort orders whose entries are any strings
\* the query plan may carry, not only "Ascending" and "Descending".
AnyDirections == SortDirections \cup {"ascending"}

InitDir ==
    /\ sort_order \in UNION {[1..n -> AnyDirections] : n \in 1..MaxLen}
    /\ docs \in [1..2 -> [orderByItems : [1..Len(sort_order) -> TopKeys],
                          minInclusive : MinSamples \ {PyNone}]]
    /\ cmp = NotCompared
    /\ NoProducers
    /\ NoMerge
    /\ NoTasks
    /\ NoRetry
    /\ NoCollector

NextDir == CompareProducers

SpecDir == InitDir /\ [][NextDir]_vars

\* C29 as stated: whenever two validated key lists differ at some position
\* the orderby comparator's result is non-zero and the same whatever the two
\* producers' ranges, for every value of the sort order's entries.
C29_KeysDecideForAnyDirection ==
    (cmp.op = "orderby" /\ SameShape(1, 2) /\ DiffPositions(1, 2) # {}) =>
        /\ Returned(cmp.fwd)
        /\ cmp.fwd.val # 0
        /\ cmp.fwd = OrderByCompare(docs[1], docs[2], docs[2].minInclusive,
                                    docs[1].minInclusive, sort_order)

\* ------------------------------------------------------------ properties of the live set
\* C21: in the states where the coordinator compares producers (Active and
\* Draining), every producer of the live set holds a peeked item, so the
\* peek() the comparator makes on it returns that item, changes nothing and
\* makes no call of the execution context; a producer that reported the end
\* of its range holds no item and is not in the live set.
C21_LiveProducersArePeeked ==
    (mstate \in {"Active", "Draining"}) =>
    \A p \in live :
        /\ producers[p].cur_item # PyNone
        /\ ~Exhausted(p)
        /\ ProducerPeek(producers[p], streams[p]) =
              {[result |-> Return(producers[p].cur_item), pr |-> producers[p], calls |-> 0]}

\* range 1 reported its end after its only item; range 2 is live with its
\* second item peeked
C21_Witness ==
    /\ mstate = "Draining" /\ live = {2} /\ Len(output) = 2
    /\ Len(streams[1]) = 1 /\ Exhausted(1)
    /\ Len(streams[2]) = 2 /\ producers[2].cur_item = streams[2][2]

\* C22: once the first pull has peeked every producer, a step never adds a
\* producer to the live set; it removes at most one, and the one removed is
\* exhausted (it reported the end of its range in that step).
C22_LiveSetOnlyShrinks ==
    [][(mstate \in {"Active", "Draining", "Done", "Failed"}) =>
            /\ live' \subseteq live
            /\ Cardinality(live \ live') <= 1
            /\ \A p \in live \ live' :
                  /\ producers'[p].cur_item = PyNone
                  /\ producers'[p].popped = Len(streams[p])]_vars

\* the pull that released the second and last item of range 2 removed it
\* from the live set, range 1 staying
C22_Witness ==
    /\ mstate = "Draining" /\ live = {1} /\ Len(streams[2]) = 2
    /\ pulled = Return(streams[2][2]) /\ Exhausted(2)

\* C23 as stated: if no fetch fails and the consumer keeps pulling, the
\* coordinator eventually reaches Done.
C23_DoneUnlessFetchFails ==
    [](pulled # FetchFailure) => <>(mstate = "Done")

\* C23: if the merge never fails (no fetch fails and no comparison raises)
\* and the consumer keeps pulling, the coordinator eventually reaches Done.
C23_EventuallyDone ==
    [](mstate # "Failed") => <>(mstate = "Done")

\* a descending merge of two two-item ranges reached Done with its last pull
\* releasing an item of range 2
C23_Witness ==
    /\ mstate = "Done" /\ live = {} /\ sort_order = <<"Descending">>
    /\ Len(output) = 4 /\ pulled = Return(output[4]) /\ output[4].rid[1] = 2

\* ------------------------------------------------------------ properties of the collector
\* x comes strictly before w in the query's order on the first orderby key
\* (numbers, in the direction of sort_order[0])
FirstKeyBefore(x, w) ==
    IF sort_order[1] = "Descending"
    THEN x.orderByItems[1].v > w.orderByItems[1].v
    ELSE x.orderByItems[1].v < w.orderByItems[1].v

Retained(c) == {c.items[i] : i \in 1..Len(c.items)}

\* C26: the collector never holds more than K items, its last item being
\* one no retained item comes after; and an item offered to a full collector
\* changes the retained set only if it comes strictly before that worst
\* item, which it then replaces: an item with the worst item's keys leaves
\* the retained set as it was.
C26_CollectorBoundedAndStrict ==
    /\ [](/\ Len(collector.items) <= collector.capacity
          /\ \A i \in 1..Len(collector.items) :
                ~FirstKeyBefore(collector.items[Len(collector.items)], collector.items[i]))
    /\ [][\A p \in Parts :
            (/\ collector.capacity > 0
             /\ Len(collector.items) = collector.capacity
             /\ collector'.offered[p] = collector.offered[p] + 1) =>
                LET x == streams[p][collector.offered[p] + 1]
                    w == collector.items[Len(collector.items)]
                IN  /\ (Retained(collector') # Retained(collector)) =>
                            /\ FirstKeyBefore(x, w)
                            /\ Retained(collector') = (Retained(collector) \ {w}) \cup {x}
                    /\ (x.orderByItems = w.orderByItems) => collector'.items = collector.items
                    /\ Len(collector'.items) = collector.capacity]_vars

\* a full descending collector of capacity 2 holding keys 1 and 0 replaced
\* its worst item: it now holds two items of key 1, one of each range
C26_Witness ==
    /\ collector.capacity = 2 /\ Len(collector.items) = 2
    /\ sort_order[1] = "Descending"
    /\ collector.offered[1] + collector.offered[2] = 3
    /\ collector.items[1].orderByItems[1] = PyNumber(1)
    /\ collector.items[2].orderByItems[1] = PyNumber(1)
    /\ collector.items[1].rid[1] # collector.items[2].rid[1]

\* ------------------------------------------------------------ SpecPair
\* NumParts producers, each over its own range, on which the orderby
\* comparator and __anext__ are called in any order: `advanced` holds, per
\* producer, the items its __anext__ calls have returned.
InitPair ==
    /\ sort_order = <<"Ascending">>
    /\ NoComparison
    /\ \E ks \in [Parts -> KeySeqs(ProdKeyLists)] :
            streams = [p \in Parts |-> StreamOf(p, ks[p])]
    /\ producers = [p \in Parts |-> NewProducer]
    /\ last = NotCalled /\ advanced = [p \in Parts |-> <<>>] /\ peek_run = NoRun
    /\ NoMerge
    /\ NoTasks
    /\ NoRetry
    /\ NoCollector

\* await comparator.compare(producer p, producer q): peek p, peek q (not made
\* when the first peek raises), then validation, loop and tie-break
ComparePair(p, q) ==
    /\ p # q
    /\ \E o1 \in ProducerPeek(producers[p], streams[p]) :
        IF Raised(o1.result)
        THEN /\ producers' = [producers EXCEPT ![p] = o1.pr]
             /\ last' = [op |-> "compare", who |-> <<p, q>>, before |-> producers,
                         result |-> o1.result, calls |-> o1.calls]
        ELSE \E o2 \in ProducerPeek(producers[q], streams[q]) :
             /\ producers' = [producers EXCEPT ![p] = o1.pr, ![q] = o2.pr]
             /\ last' = [op |-> "compare", who |-> <<p, q>>, before |-> producers,
                         result |-> IF Raised(o2.result) THEN o2.result
                                    ELSE OrderByCompare(o1.result.val, o2.result.val,
                                                        MinInclusiveOf(p), MinInclusiveOf(q),
                                                        sort_order),
                         calls |-> o1.calls + o2.calls]
    /\ UNCHANGED <<taskVars, topVars, retry, sort_order, cmpVars, streams, advanced, peek_run, mergeVars>>

\* await producers[p].__anext__()
AdvanceOf(p) ==
    \E out \in ProducerAnext(producers[p], streams[p]) :
        /\ producers' = [producers EXCEPT ![p] = out.pr]
        /\ last' = [op |-> "advance", who |-> <<p>>, before |-> producers,
                    result |-> out.result, calls |-> out.calls]
        /\ advanced' = IF Returned(out.result)
                       THEN [advanced EXCEPT ![p] = Append(@, out.result.val)]
                       ELSE advanced
        /\ UNCHANGED <<taskVars, topVars, retry, sort_order, cmpVars, streams, peek_run, mergeVars>>

NextPair == (\E p, q \in Parts : ComparePair(p, q)) \/ (\E p \in Parts : AdvanceOf(p))

SpecPair == InitPair /\ [][NextPair]_vars

\* C28: whatever comparisons have been made in between, the items a
\* producer's __anext__ calls have returned are the first items of its range
\* in order, and the items still to come are the rest of the range (the item
\* held in _cur_item first); and a comparison leaves every producer as it
\* was, except that a producer it peeked whose _cur_item was None may now
\* hold the next item of its range, taken from the execution context.
C28_CompareConsumesNothing ==
    /\ \A p \in Parts :
        /\ Len(advanced[p]) <= Len(streams[p])
        /\ advanced[p] = SubSeq(streams[p], 1, Len(advanced[p]))
        /\ producers[p].popped =
              Len(advanced[p]) + (IF producers[p].cur_item # PyNone THEN 1 ELSE 0)
        /\ (producers[p].cur_item # PyNone) =>
              producers[p].cur_item = streams[p][Len(advanced[p]) + 1]
    /\ (last.op = "compare") =>
        \A p \in Parts :
            \/ producers[p] = last.before[p]
            \/ /\ p \in {last.who[1], last.who[2]}
               /\ last.before[p].cur_item = PyNone
               /\ last.before[p].popped < Len(streams[p])
               /\ producers[p].cur_item = streams[p][last.before[p].popped + 1]
               /\ producers[p].popped = last.before[p].popped + 1

\* producer 1 returned its first item, a comparison then filled both
\* lookaheads (the second item of range 1, the first of range 2) and returned
C28_Witness ==
    /\ last.op = "compare" /\ last.who = <<1, 2>> /\ Returned(last.result)
    /\ last.calls = 2
    /\ Len(advanced[1]) = 1 /\ advanced[2] = <<>>
    /\ Len(streams[1]) = 2 /\ producers[1].cur_item = streams[1][2]
    /\ producers[2].cur_item = streams[2][1]

\* ------------------------------------------------------------ SpecRetry
\* One call of StorageRetryPolicy.send. `retry` holds the retry settings of
\* configure_retries (total, connect, read, status, count, mode and the
\* length of history), what the request is (body, secondary), the number of
\* self.next.send calls made (sends), what the last of them did (last_ev),
\* how many of them ended in each kind of failure (seen), and how the call
\* ended (pc, result).
\*
\* body: "none" (no stream body), "rewindable" (a stream whose position was
\* saved and can be restored), "no_position" (body_position is None) or
\* "unseekable" (seek raises).  secondary: the method is not PUT,
\* retry_secondary is set and both hosts are known.
Statuses == {200, 404, 408, 409, 500, 501}
ErrorKinds == {"ServiceRequestError", "ServiceResponseError", "AzureError", "AzureSigningError"}
Bodies == {"none", "rewindable", "no_position", "unseekable"}

\* what one self.next.send(request) does: a response (its status, whether
\* x-ms-copy-source-error-code names a retryable error, whether its
\* content-md5 fails validation), or an AzureError of some class
Responses == [kind : {"response"}, status : Statuses, copy_error : BOOLEAN, checksum : BOOLEAN]
ErrorEvent(k) == [kind |-> k, status |-> 0, copy_error |-> FALSE, checksum |-> FALSE]
NoEvent == ErrorEvent("none")

MinOf(S) == CHOOSE x \in S : \A y \in S : x <= y

\* is_exhausted answering one failure too late
is_exhausted_late(settings) ==
    LET retry_counts == {c \in {settings.total, settings.connect, settings.read,
                                 settings.status} : c # 0}
    IN  IF retry_counts = {} THEN FALSE ELSE MinOf(retry_counts) < -1

\* is_exhausted: filter(None, ...) drops the counts that are 0
is_exhausted(settings) ==
    LET retry_counts == {c \in {settings.total, settings.connect, settings.read,
                                 settings.status} : c # 0}
    IN  IF retry_counts = {} THEN FALSE ELSE MinOf(retry_counts) < 0

is_retry(status, mode, copy_error) ==
    IF 300 <= status /\ status < 500
    THEN IF status = 404 /\ mode = "secondary" THEN TRUE
         ELSE IF status = 408 THEN TRUE
         ELSE IF status >= 400 /\ copy_error THEN TRUE
         ELSE FALSE
    ELSE IF status >= 500 THEN status \notin {501, 505}
    ELSE FALSE

_set_next_host_location(settings) ==
    [settings EXCEPT !.mode = IF @ = "primary" THEN "secondary" ELSE "primary"]

\* StorageRetryPolicy.increment: the settings it leaves and what it returns
increment(settings, kind, body, secondary) ==
    LET s1 == [settings EXCEPT !.total = @ - 1]
        s2 == IF kind = "ServiceRequestError"
              THEN [s1 EXCEPT !.connect = @ - 1, !.history = @ + 1]
              ELSE IF kind = "ServiceResponseError"
              THEN [s1 EXCEPT !.read = @ - 1, !.history = @ + 1]
              ELSE IF kind = "response"
              THEN [s1 EXCEPT !.status = @ - 1, !.history = @ + 1]
              ELSE s1
    IN  IF ~is_exhausted(s2)
        THEN LET s3 == IF secondary THEN _set_next_host_location(s2) ELSE s2
             IN  IF body \in {"no_position", "unseekable"}
                 THEN [settings |-> s3, ret |-> FALSE]
                 ELSE [settings |-> [s3 EXCEPT !.count = @ + 1], ret |-> TRUE]
        ELSE [settings |-> s2, ret |-> FALSE]

RetryBudgets == 0..MaxRetries

InitRetry ==
    /\ sort_order = <<"Ascending">>
    /\ NoComparison /\ NoProducers /\ NoMerge /\ NoTasks /\ NoCollector
    /\ \E t, c, r, st \in RetryBudgets : \E b \in Bodies : \E sec \in BOOLEAN :
         retry = [pc |-> "sending",
                  settings |-> [total |-> t, connect |-> c, read |-> r, status |-> st,
                                count |-> 0, history |-> 0, mode |-> "primary"],
                  configured |-> [total |-> t, connect |-> c, read |-> r, status |-> st],
                  body |-> b, secondary |-> sec,
                  sends |-> 0, last_ev |-> NoEvent,
                  seen |-> [connect |-> 0, read |-> 0, status |-> 0],
                  result |-> NoEvent]

\* one pass of the loop in which self.next.send returns a response
SendResponse(ev) ==
    /\ retry.pc = "sending"
    /\ ev \in Responses
    /\ IF is_retry(ev.status, retry.settings.mode, ev.copy_error) \/ ev.checksum
       THEN LET inc == increment(retry.settings, "response", retry.body, retry.secondary)
            IN  retry' = [retry EXCEPT
                    !.settings = inc.settings,
                    !.sends = @ + 1, !.last_ev = ev,
                    !.seen.status = @ + 1,
                    !.pc = IF inc.ret THEN "sending" ELSE "returned",
                    !.result = IF inc.ret THEN NoEvent ELSE ev]
       ELSE retry' = [retry EXCEPT
                    !.sends = @ + 1, !.last_ev = ev,
                    !.pc = "returned", !.result = ev]
    /\ UNCHANGED <<sort_order, cmpVars, prodVars, mergeVars, taskVars, topVars>>

\* one pass of the loop in which self.next.send raises an AzureError
SendError(k) ==
    /\ retry.pc = "sending"
    /\ k \in ErrorKinds
    /\ IF k = "AzureSigningError"
       THEN retry' = [retry EXCEPT
                    !.sends = @ + 1, !.last_ev = ErrorEvent(k),
                    !.pc = "raised", !.result = ErrorEvent(k)]
       ELSE LET inc == increment(retry.settings, k, retry.body, retry.secondary)
            IN  retry' = [retry EXCEPT
                    !.settings = inc.settings,
                    !.sends = @ + 1, !.last_ev = ErrorEvent(k),
                    !.seen.connect = IF k = "ServiceRequestError" THEN @ + 1 ELSE @,
                    !.seen.read = IF k = "ServiceResponseError" THEN @ + 1 ELSE @,
                    !.pc = IF inc.ret THEN "sending" ELSE "raised",
                    !.result = IF inc.ret THEN NoEvent ELSE ErrorEvent(k)]
    /\ UNCHANGED <<sort_order, cmpVars, prodVars, mergeVars, taskVars, topVars>>

NextRetry == (\E ev \in Responses : SendResponse(ev)) \/ (\E k \in ErrorKinds : SendError(k))

SpecRetry == InitRetry /\ [][NextRetry]_vars

\* every self.next.send call comes back
FairSpecRetry == SpecRetry /\ WF_vars(NextRetry)

\* C30: send makes at most retry_total + 1 calls of self.next.send; at most
\* retry_connect + 1 of them raise ServiceRequestError, at most
\* retry_read + 1 ServiceResponseError and at most retry_status + 1 bring a
\* retryable response; with a stream body that cannot be rewound it makes
\* one call only; it goes on after a call only if that call brought a
\* retryable response or an error other than AzureSigningError; when it
\* ends it returns the response of its last call or raises the error of its
\* last call; and it ends.
C30_SendIsBounded ==
    /\ [](retry.pc # "none" =>
            /\ retry.sends <= retry.configured.total + 1
            /\ retry.seen.connect <= retry.configured.connect + 1
            /\ retry.seen.read <= retry.configured.read + 1
            /\ retry.seen.status <= retry.configured.status + 1
            /\ (retry.body \in {"no_position", "unseekable"}) => retry.sends <= 1
            /\ (retry.pc = "sending" /\ retry.sends > 0) =>
                  /\ retry.last_ev.kind # "AzureSigningError"
                  /\ (retry.last_ev.kind = "response") =>
                        (\/ retry.last_ev.checksum
                         \/ retry.last_ev.status \in {408, 500}
                         \/ retry.last_ev.status \in {404, 409})
            /\ (retry.pc = "returned") =>
                  retry.result = retry.last_ev /\ retry.result.kind = "response"
            /\ (retry.pc = "raised") =>
                  retry.result = retry.last_ev /\ retry.result.kind \in ErrorKinds)
    /\ <>(retry.pc \in {"returned", "raised"})

\* with retry_total = 2, a retryable response, a
\* connect error and a read error used up the total: the third call's error
\* is raised
C30_Witness ==
    /\ retry.pc = "raised" /\ retry.configured.total = 2 /\ retry.sends = 3
    /\ retry.seen = [connect |-> 1, read |-> 1, status |-> 1]
    /\ retry.result = ErrorEvent("ServiceResponseError")
    /\ retry.settings.total = -1

====
